---- MODULE Spec2Model ----
(***************************************************************************)
(* Model of context/logger.go: the logger bound to a context.Context, the  *)
(* process-wide default logger behind a sync.RWMutex, and the resolution   *)
(* of log fields from explicit arguments and from context keys.            *)
(*                                                                         *)
(* Go values are records [t, n, s]: t is the dynamic type, n the integer   *)
(* payload (an int, or the address of a *logrus.Entry, 0 for a nil         *)
(* pointer), s the string payload.  *logrus.Entry objects live in `heap`;  *)
(* logrus' WithFields allocates a new Entry and copies the receiver's      *)
(* Data into it.                                                           *)
(***************************************************************************)
EXTENDS Integers, Sequences, FiniteSets, TLC

VARIABLES
    heap,           \* address -> *logrus.Entry object (or Free)
    defaultLogger,  \* the package variable: address of the default Entry, 0 = nil
    ctxs,           \* the context.Context values built so far (0 is Background)
    call,           \* the last Get* call of the sequential caller and its outcome
    lastSet,        \* history: the argument of the most recent SetDefaultLogger call
                    \* (arg) and the most recent *logrus.Entry among them (entry)
    mu,             \* defaultLoggerMu: [readers, writer] (writer: free, pending, held)
    pc,             \* per goroutine: position in GetLogger / SetDefaultLogger
    reg             \* per goroutine: its locals, and the values the slot held during its call

vars == <<heap, defaultLogger, ctxs, call, lastSet, mu, pc, reg>>

(* ------------------------------ bounds --------------------------------- *)

\* number of contexts the caller derives with WithLogger and WithValue
MaxCtx == 2
\* length of the variadic keys ...interface{} argument
MaxKeys == 2
\* number of entries of the fields map argument
MaxFields == 2
\* number of heap cells for *logrus.Entry objects
MaxHeap == 5
\* number of goroutines of the concurrent specification
MaxGoroutines == 3

(* ------------------------------ Go values ------------------------------ *)

GoValue(t, n, s) == [t |-> t, n |-> n, s |-> s]

\* the nil interface value
NilIface == GoValue("nil", 0, "")
\* a Logger whose dynamic type is *logrus.Entry; a = 0 is the typed nil pointer
EntryPtr(a) == GoValue("entry", a, "")
\* a Logger implemented by another type (*logrus.Logger, a custom adapter)
OtherLogger == GoValue("other", 1, "")
IntVal(i) == GoValue("int", i, "")
StrVal(s) == GoValue("string", 0, s)

\* type loggerKey struct{}
loggerKey == GoValue("loggerKey", 0, "")

\* keys a caller binds in a context and passes as keys ... / as field keys:
\* the int 1 and the string "1" are different keys with the same text
UserKeys == {IntVal(1), StrVal("1"), StrVal("a")}
\* values a caller binds in a context or passes as explicit field values
UserVals == {StrVal("x"), StrVal("y")}

Digits == <<"0", "1", "2", "3", "4", "5", "6", "7", "8", "9">>

RECURSIVE Itoa(_)
Itoa(i) ==
    IF i < 0 THEN "-" \o Itoa(0 - i)
    ELSE IF i < 10 THEN Digits[i + 1]
    ELSE Itoa(i \div 10) \o Digits[(i % 10) + 1]

\* fmt.Sprint(key), for the key types of the model
Sprint(k) ==
    CASE k.t = "int" -> Itoa(k.n)
      [] k.t = "string" -> k.s
      [] k.t = "loggerKey" -> "{}"
      [] OTHER -> "<nil>"

(* ------------------------------ logrus --------------------------------- *)

\* logrus.Fields{}
EmptyFields == [name \in {} |-> NilIface]

Entry(logger, data) == [logger |-> logger, data |-> data]
Free == Entry("", EmptyFields)

\* the Entry the package initialises defaultLogger to
StdEntry == Entry("std", EmptyFields)
\* two Entry objects the application built itself and holds on to; the first
\* carries a field named "1" already
AppEntry == Entry("app", ("1" :> StrVal("b")) @@ ("svc" :> StrVal("b")))
AuxEntry == Entry("aux", ("req" :> StrVal("r")))

StdAddr == 1
AppAddr == 2
AuxAddr == 3

Addrs == 1..MaxHeap

\* addresses of the Entry objects something still refers to
Roots(cs, d) ==
    {AppAddr, AuxAddr}
      \cup (IF d \in Addrs THEN {d} ELSE {})
      \cup {cs[i].val.n : i \in {j \in DOMAIN cs : cs[j].val.t = "entry" /\ cs[j].val.n # 0}}

\* the garbage collector: a cell nothing refers to is free again
Collect(h, live) == [a \in Addrs |-> IF a \in live THEN h[a] ELSE Free]

\* the address a new Entry is allocated at
Alloc(live) == CHOOSE a \in Addrs \ live : \A b \in Addrs \ live : a <= b

\* a mutant of WithFields: the fields are added to the receiver in place
WithFieldsInPlace(h, p, fields, live) ==
    [heap |-> [h EXCEPT ![p] = Entry(h[p].logger, fields @@ h[p].data)], ptr |-> p]

\* (*logrus.Entry).WithFields on the Entry at address p (p is not nil): a new
\* Entry with the receiver's Logger and its Data overlaid with `fields`
WithFields(h, p, fields, live) ==
    LET a == Alloc(live)
    IN  [heap |-> [h EXCEPT ![a] = Entry(h[p].logger, fields @@ h[p].data)], ptr |-> a]

(* ------------------------------ contexts ------------------------------- *)

Background == 0
Ctxs(cs) == {Background} \cup DOMAIN cs

\* context.WithValue(parent, key, val)
WithValueCtx(cs, parent, key, val) ==
    Append(cs, [parent |-> parent, key |-> key, val |-> val])

\* ctx.Value(key): the nearest binding of key on the chain from c to Background
RECURSIVE Value(_, _, _)
Value(cs, c, key) ==
    IF c = Background THEN NilIface
    ELSE IF cs[c].key = key THEN cs[c].val
    ELSE Value(cs, cs[c].parent, key)

(* ------------------------- argument domains ---------------------------- *)

\* the fields map[interface{}]interface{} arguments
FieldMaps ==
    UNION {[D -> UserVals] : D \in {S \in SUBSET UserKeys : Cardinality(S) <= MaxFields}}

\* the keys ...interface{} arguments
KeySeqs == UNION {[1..n -> UserKeys] : n \in 0..MaxKeys}

\* the orders in which `range fields` may visit the keys of a Go map
KeyOrders(D) ==
    {o \in [1..Cardinality(D) -> D] : \A i, j \in 1..Cardinality(D) : i # j => o[i] # o[j]}

\* before the first SetDefaultLogger call
NoCall == [arg |-> GoValue("none", 0, ""), entry |-> StdAddr]

GetOps == {"GetLogger", "GetLoggerWithField", "GetLoggerWithFields"}

Idle ==
    [op |-> "idle", ctx |-> Background, fields |-> EmptyFields, keys |-> <<>>,
     base |-> 0, ret |-> 0, panicked |-> FALSE]

\* the Logger values the caller passes: nil, a typed nil *logrus.Entry, another
\* implementation of the interface, the Entry objects it holds
LoggerArgs == {NilIface, EntryPtr(0), OtherLogger, EntryPtr(AppAddr), EntryPtr(AuxAddr)}

(* --------------------------- logger.go --------------------------------- *)

\* a mutant of getLogrusLogger's loop: a later key does not replace the field
\* an earlier key with the same text set
ResolveKeysFirstWins(cs, c, keys, fields) ==
    LET step[i \in 0..Len(keys)] ==
            IF i = 0 THEN fields
            ELSE LET v == Value(cs, c, keys[i])
                 IN  IF v # NilIface THEN step[i - 1] @@ (Sprint(keys[i]) :> v)
                     ELSE step[i - 1]
    IN  step[Len(keys)]

\* lines 121-127: fields[fmt.Sprint(key)] = v for every key with a value in ctx
RECURSIVE ResolveKeys(_, _, _, _)
ResolveKeys(cs, c, keys, fields) ==
    IF keys = <<>> THEN fields
    ELSE LET key == Head(keys)
             v == Value(cs, c, key)
         IN  ResolveKeys(cs, c, Tail(keys),
                         IF v # NilIface THEN (Sprint(key) :> v) @@ fields ELSE fields)

\* a mutant of BoundLogger: a binding that is no *logrus.Entry is skipped and
\* the search goes on up the chain
RECURSIVE BoundLoggerSkipOthers(_, _)
BoundLoggerSkipOthers(cs, c) ==
    IF c = Background THEN 0
    ELSE IF cs[c].key = loggerKey /\ cs[c].val.t = "entry" THEN cs[c].val.n
    ELSE BoundLoggerSkipOthers(cs, cs[c].parent)

\* lines 105-113: the *logrus.Entry bound to the context, nil (0) when nothing
\* is bound or what is bound is not a *logrus.Entry
BoundLogger(cs, c) ==
    LET loggerInterface == Value(cs, c, loggerKey)
    IN  IF loggerInterface # NilIface /\ loggerInterface.t = "entry"
        THEN loggerInterface.n
        ELSE 0

\* a mutant of BaseLogger: the default logger is preferred to the bound one
BaseLoggerDefaultFirst(cs, c, d) == IF d # 0 THEN d ELSE BoundLogger(cs, c)

\* lines 105-119: the logger getLogrusLogger enriches, d being the value it
\* reads from defaultLogger under the read lock
BaseLogger(cs, c, d) ==
    LET logger == BoundLogger(cs, c)
    IN  IF logger = 0 THEN d ELSE logger

\* getLogrusLogger(ctx, keys...): logger.WithFields(fields); a nil logger panics
getLogrusLogger(h, d, cs, c, keys, live) ==
    LET logger == BaseLogger(cs, c, d)
        fields == ResolveKeys(cs, c, keys, EmptyFields)
    IN  IF logger = 0
        THEN [heap |-> h, ptr |-> 0, base |-> 0, panicked |-> TRUE]
        ELSE LET r == WithFields(h, logger, fields, live)
             IN  [heap |-> r.heap, ptr |-> r.ptr, base |-> logger, panicked |-> FALSE]

\* lines 70-73: lfields[fmt.Sprint(key)] = value, the keys visited in `order`
RECURSIVE BuildFields(_, _, _)
BuildFields(order, fields, lfields) ==
    IF order = <<>> THEN lfields
    ELSE BuildFields(Tail(order), fields,
                     (Sprint(Head(order)) :> fields[Head(order)]) @@ lfields)

\* the caller is not holding the result of a Get* call
Ready == call.op \notin GetOps

\* what a finished (or panicked) Get* call leaves behind
Returned(op, c, fields, keys, r) ==
    /\ call' = [op |-> op, ctx |-> c, fields |-> fields, keys |-> keys,
                base |-> r.base, ret |-> r.ptr, panicked |-> r.panicked]
    /\ heap' = Collect(r.heap, Roots(ctxs, defaultLogger) \cup (IF r.panicked THEN {} ELSE {r.ptr}))
    /\ UNCHANGED <<defaultLogger, ctxs, lastSet, mu, pc, reg>>

\* a mutant of Enrich: the explicit fields are applied first, the context's after
EnrichContextLast(h, d, cs, c, lfields, keys, live) ==
    LET logger == BaseLogger(cs, c, d)
    IN  IF logger = 0
        THEN [heap |-> h, ptr |-> 0, base |-> 0, panicked |-> TRUE]
        ELSE LET r1 == WithFields(h, logger, lfields, live)
                 r2 == WithFields(r1.heap, r1.ptr, ResolveKeys(cs, c, keys, EmptyFields),
                                  live \cup {r1.ptr})
             IN  [heap |-> r2.heap, ptr |-> r2.ptr, base |-> logger, panicked |-> FALSE]

\* getLogrusLogger(ctx, keys...).WithFields(lfields)  (lines 62 and 75)
Enrich(h, d, cs, c, lfields, keys, live) ==
    LET r1 == getLogrusLogger(h, d, cs, c, keys, live)
    IN  IF r1.panicked THEN r1
        ELSE LET r2 == WithFields(r1.heap, r1.ptr, lfields, live \cup {r1.ptr})
             IN  [heap |-> r2.heap, ptr |-> r2.ptr, base |-> r1.base, panicked |-> FALSE]

\* func GetLogger(ctx, keys...)
GetLogger(c, keys) ==
    /\ Ready
    /\ \E r \in {getLogrusLogger(heap, defaultLogger, ctxs, c, keys,
                                  Roots(ctxs, defaultLogger))} :
         Returned("GetLogger", c, EmptyFields, keys, r)

\* func GetLoggerWithField(ctx, key, value, keys...)
GetLoggerWithField(c, key, value, keys) ==
    /\ Ready
    /\ \E r \in {Enrich(heap, defaultLogger, ctxs, c, (Sprint(key) :> value), keys,
                         Roots(ctxs, defaultLogger))} :
         Returned("GetLoggerWithField", c, (key :> value), keys, r)

\* func GetLoggerWithFields(ctx, fields, keys...)
GetLoggerWithFields(c, fields, keys) ==
    /\ Ready
    /\ \E lfields \in {BuildFields(order, fields, EmptyFields) :
                           order \in KeyOrders(DOMAIN fields)} :
       \E r \in {Enrich(heap, defaultLogger, ctxs, c, lfields, keys,
                         Roots(ctxs, defaultLogger))} :
         Returned("GetLoggerWithFields", c, fields, keys, r)

\* the caller drops the logger a Get* call returned and goes on
Return ==
    /\ call.op \in GetOps
    /\ call' = Idle
    /\ heap' = Collect(heap, Roots(ctxs, defaultLogger))
    /\ UNCHANGED <<defaultLogger, ctxs, lastSet, mu, pc, reg>>

\* a mutant of WithLoggerCtx: the logger is bound on the parent's own node
WithLoggerRebindParent(cs, parent, logger) ==
    IF parent = Background THEN WithValueCtx(cs, parent, loggerKey, logger)
    ELSE Append([cs EXCEPT ![parent] = [parent |-> cs[parent].parent, key |-> loggerKey,
                                        val |-> logger]],
                [parent |-> parent, key |-> loggerKey, val |-> logger])

\* line 55: context.WithValue(ctx, loggerKey{}, logger)
WithLoggerCtx(cs, parent, logger) == WithValueCtx(cs, parent, loggerKey, logger)

\* func WithLogger(ctx, logger)
WithLogger(parent, logger) ==
    /\ Len(ctxs) < MaxCtx
    /\ ctxs' = WithLoggerCtx(ctxs, parent, logger)
    /\ call' = Idle
    /\ heap' = Collect(heap, Roots(ctxs', defaultLogger))
    /\ UNCHANGED <<defaultLogger, lastSet, mu, pc, reg>>

\* the caller derives a context carrying a value of its own (context.WithValue)
WithValue(parent, key, val) ==
    /\ Len(ctxs) < MaxCtx
    /\ ctxs' = WithValueCtx(ctxs, parent, key, val)
    /\ call' = Idle
    /\ heap' = Collect(heap, Roots(ctxs', defaultLogger))
    /\ UNCHANGED <<defaultLogger, lastSet, mu, pc, reg>>

\* a mutant of StoredDefault: only the initial default is ever replaced
StoredDefaultOnce(d, logger) == IF logger.t = "entry" /\ d = StdAddr THEN logger.n ELSE d

\* lines 90-97: the value of defaultLogger after SetDefaultLogger(logger), d
\* being its value before
StoredDefault(d, logger) == IF logger.t = "entry" THEN logger.n ELSE d

\* func SetDefaultLogger(logger), run by the sequential caller
SetDefaultLogger(logger) ==
    /\ defaultLogger' = StoredDefault(defaultLogger, logger)
    /\ lastSet' = [arg |-> logger,
                   entry |-> IF logger.t = "entry" THEN logger.n ELSE lastSet.entry]
    /\ call' = Idle
    /\ heap' = Collect(heap, Roots(ctxs, defaultLogger'))
    /\ UNCHANGED <<ctxs, mu, pc, reg>>

(* ---------------------- the sequential program ------------------------- *)

Goroutines == 1..MaxGoroutines

\* a goroutine's locals outside a call
IdleReg == [arg |-> NilIface, logger |-> 0, seen |-> {}]

InitHeap ==
    [a \in Addrs |-> CASE a = StdAddr -> StdEntry
                       [] a = AppAddr -> AppEntry
                       [] a = AuxAddr -> AuxEntry
                       [] OTHER -> Free]

\* the state after package initialisation (lines 11-14)
Init ==
    /\ heap = InitHeap
    /\ defaultLogger = StdAddr
    /\ ctxs = <<>>
    /\ call = Idle
    /\ lastSet = NoCall
    /\ mu = [readers |-> 0, writer |-> "free"]
    /\ pc = [g \in Goroutines |-> "idle"]
    /\ reg = [g \in Goroutines |-> IdleReg]

\* binding loggers to contexts, replacing the default, resolving the logger
Next ==
    \/ \E parent \in Ctxs(ctxs), logger \in LoggerArgs : WithLogger(parent, logger)
    \/ \E parent \in Ctxs(ctxs), key \in UserKeys, val \in UserVals :
         WithValue(parent, key, val)
    \/ \E logger \in LoggerArgs : SetDefaultLogger(logger)
    \/ Ready /\ \E c \in Ctxs(ctxs) : GetLogger(c, <<>>)
    \/ Return

Spec == Init /\ [][Next]_vars

\* a request context: two values bound under keys with the same text, then a logger
RequestCtxs ==
    WithLoggerCtx(
        WithValueCtx(WithValueCtx(<<>>, Background, IntVal(1), StrVal("x")),
                     1, StrVal("1"), StrVal("y")),
        2, EntryPtr(AppAddr))

InitFields ==
    /\ heap = InitHeap
    /\ defaultLogger = StdAddr
    /\ ctxs = RequestCtxs
    /\ call = Idle
    /\ lastSet = NoCall
    /\ mu = [readers |-> 0, writer |-> "free"]
    /\ pc = [g \in Goroutines |-> "idle"]
    /\ reg = [g \in Goroutines |-> IdleReg]

\* resolving fields on the contexts of a request
NextFields ==
    \/ Ready /\ \E c \in Ctxs(ctxs), keys \in KeySeqs : GetLogger(c, keys)
    \/ Ready /\ \E c \in Ctxs(ctxs), key \in UserKeys, value \in UserVals, keys \in KeySeqs :
                  GetLoggerWithField(c, key, value, keys)
    \/ Ready /\ \E c \in Ctxs(ctxs), fields \in FieldMaps, keys \in KeySeqs :
                  GetLoggerWithFields(c, fields, keys)
    \/ Return
    \/ \E logger \in LoggerArgs : SetDefaultLogger(logger)

SpecFields == InitFields /\ [][NextFields]_vars

(* ---------------------- the concurrent program ------------------------- *)

\* what the slot holds while an assignment to it is under way
Torn == -1

RLockHeld == {"r_read", "r_unlock"}
LockHeld == {"w_store", "w_store2", "w_unlock"}
InGet == {"r_lock", "r_read", "r_unlock", "r_ret"}

\* the Logger values the goroutines pass to SetDefaultLogger
GoLoggerArgs == {NilIface, OtherLogger, EntryPtr(0), EntryPtr(AppAddr)}

\* line 108-114 of a concurrent GetLogger(ctx): a bound *logrus.Entry needs no
\* default; otherwise the goroutine goes on to defaultLoggerMu.RLock()
GoGetLogger(g, c) ==
    /\ pc[g] = "idle"
    /\ LET logger == BoundLogger(ctxs, c)
       IN  /\ pc' = [pc EXCEPT ![g] = IF logger = 0 THEN "r_lock" ELSE "r_ret"]
           /\ reg' = [reg EXCEPT ![g] =
                        [arg |-> NilIface, logger |-> logger,
                         seen |-> IF defaultLogger = Torn THEN {} ELSE {defaultLogger}]]
    /\ UNCHANGED <<heap, defaultLogger, ctxs, call, lastSet, mu>>

\* line 116: defaultLoggerMu.RLock() returns once no writer holds or awaits the lock
RLock(g) ==
    /\ pc[g] = "r_lock"
    /\ mu.writer = "free"
    /\ mu' = [mu EXCEPT !.readers = @ + 1]
    /\ pc' = [pc EXCEPT ![g] = "r_read"]
    /\ UNCHANGED <<heap, defaultLogger, ctxs, call, lastSet, reg>>

\* line 117: logger = defaultLogger
ReadDefault(g) ==
    /\ pc[g] = "r_read"
    /\ reg' = [reg EXCEPT ![g].logger = defaultLogger]
    /\ pc' = [pc EXCEPT ![g] = "r_unlock"]
    /\ UNCHANGED <<heap, defaultLogger, ctxs, call, lastSet, mu>>

\* line 118: defaultLoggerMu.RUnlock()
RUnlock(g) ==
    /\ pc[g] = "r_unlock"
    /\ mu' = [mu EXCEPT !.readers = @ - 1]
    /\ pc' = [pc EXCEPT ![g] = "r_ret"]
    /\ UNCHANGED <<heap, defaultLogger, ctxs, call, lastSet, reg>>

\* line 129: logger.WithFields(fields) panics on a nil logger, else GetLogger returns
GoReturn(g) ==
    /\ pc[g] = "r_ret"
    /\ pc' = [pc EXCEPT ![g] = IF reg[g].logger = 0 THEN "panic" ELSE "idle"]
    /\ reg' = [reg EXCEPT ![g] = IF reg[g].logger = 0 THEN @ ELSE IdleReg]
    /\ UNCHANGED <<heap, defaultLogger, ctxs, call, lastSet, mu>>

\* a mutant of GoSetDefaultLogger: the lock is taken before the type is looked
\* at, and the early return leaves it held
GoSetDefaultLoggerLockFirst(g, logger) ==
    /\ pc[g] = "idle"
    /\ mu.writer = "free" /\ mu.readers = 0
    /\ mu' = [mu EXCEPT !.writer = "held"]
    /\ pc' = [pc EXCEPT ![g] = IF logger.t = "entry" THEN "w_store" ELSE "idle"]
    /\ reg' = [reg EXCEPT ![g] = [IdleReg EXCEPT !.arg = logger]]
    /\ UNCHANGED <<heap, defaultLogger, ctxs, call, lastSet>>

\* a mutant of GoSetDefaultLogger: the assignment is made without the lock
GoSetDefaultLoggerNoLock(g, logger) ==
    /\ pc[g] = "idle"
    /\ pc' = [pc EXCEPT ![g] = IF logger.t = "entry" THEN "w_store" ELSE "idle"]
    /\ reg' = [reg EXCEPT ![g] = [IdleReg EXCEPT !.arg = logger]]
    /\ UNCHANGED <<heap, defaultLogger, ctxs, call, lastSet, mu>>

\* lines 90-93 of a concurrent SetDefaultLogger(logger): return unless logger is
\* a *logrus.Entry
GoSetDefaultLogger(g, logger) ==
    /\ pc[g] = "idle"
    /\ pc' = [pc EXCEPT ![g] = IF logger.t = "entry" THEN "w_lock" ELSE "idle"]
    /\ reg' = [reg EXCEPT ![g] = [IdleReg EXCEPT !.arg = logger]]
    /\ UNCHANGED <<heap, defaultLogger, ctxs, call, lastSet, mu>>

\* line 95: defaultLoggerMu.Lock() first shuts new readers and writers out ...
Lock(g) ==
    /\ pc[g] = "w_lock"
    /\ mu.writer = "free"
    /\ mu' = [mu EXCEPT !.writer = "pending"]
    /\ pc' = [pc EXCEPT ![g] = "w_wait"]
    /\ UNCHANGED <<heap, defaultLogger, ctxs, call, lastSet, reg>>

\* ... and returns once the readers in flight have left
LockAcquired(g) ==
    /\ pc[g] = "w_wait"
    /\ mu.readers = 0
    /\ mu' = [mu EXCEPT !.writer = "held"]
    /\ pc' = [pc EXCEPT ![g] = "w_store"]
    /\ UNCHANGED <<heap, defaultLogger, ctxs, call, lastSet, reg>>

\* line 96: defaultLogger = entry is an unsynchronised store: while it is under
\* way the slot holds neither the old nor the new pointer
StoreBegin(g) ==
    /\ pc[g] = "w_store"
    /\ defaultLogger' = Torn
    /\ pc' = [pc EXCEPT ![g] = "w_store2"]
    /\ UNCHANGED <<heap, ctxs, call, lastSet, mu, reg>>

StoreEnd(g) ==
    /\ pc[g] = "w_store2"
    /\ defaultLogger' = StoredDefault(defaultLogger, reg[g].arg)
    /\ reg' = [h \in Goroutines |->
                 IF pc[h] \in InGet THEN [reg[h] EXCEPT !.seen = @ \cup {defaultLogger'}]
                 ELSE reg[h]]
    /\ pc' = [pc EXCEPT ![g] = "w_unlock"]
    /\ UNCHANGED <<heap, ctxs, call, lastSet, mu>>

\* line 97: defaultLoggerMu.Unlock()
Unlock(g) ==
    /\ pc[g] = "w_unlock"
    /\ mu' = [mu EXCEPT !.writer = "free"]
    /\ pc' = [pc EXCEPT ![g] = "idle"]
    /\ reg' = [reg EXCEPT ![g] = IdleReg]
    /\ UNCHANGED <<heap, defaultLogger, ctxs, call, lastSet>>

NextConc ==
    \E g \in Goroutines :
        \/ \E c \in Ctxs(ctxs) : GoGetLogger(g, c)
        \/ RLock(g)
        \/ ReadDefault(g)
        \/ RUnlock(g)
        \/ GoReturn(g)
        \/ \E logger \in GoLoggerArgs : GoSetDefaultLogger(g, logger)
        \/ Lock(g)
        \/ LockAcquired(g)
        \/ StoreBegin(g)
        \/ StoreEnd(g)
        \/ Unlock(g)

SpecConc == Init /\ [][NextConc]_vars

(* ------------------------------ claims --------------------------------- *)

\* the nodes on the chain from context c up to Background
RECURSIVE Chain(_, _)
Chain(cs, c) == IF c = Background THEN {} ELSE {c} \cup Chain(cs, cs[c].parent)

\* the nodes of the chain that WithLogger made
LoggerNodes(cs, c) == {a \in Chain(cs, c) : cs[a].key = loggerKey}

Newest(S) == CHOOSE a \in S : \A b \in S : b <= a

\* the Logger most recently bound on the chain of c (a child is made after its
\* parent), NilIface when none is
MostRecentBinding(cs, c) ==
    IF LoggerNodes(cs, c) = {} THEN NilIface ELSE cs[Newest(LoggerNodes(cs, c))].val

\* a Logger value that holds a logger: not nil, not a nil *logrus.Entry
IsLogger(l) == l.t = "other" \/ (l.t = "entry" /\ l.n # 0)
IsEntry(l) == l.t = "entry" /\ l.n # 0

\* the call just made returned a new Entry equal to the one at address a
ReturnsCopyOf(a) ==
    /\ ~call.panicked
    /\ call.ret \in Addrs /\ call.ret # a
    /\ a \in Addrs /\ heap[call.ret] = heap[a]

\* the call just made returned the Logger l
ReturnsLogger(l) == l.t = "entry" /\ ReturnsCopyOf(l.n)

\* the call just made worked on the default logger: a copy of the slot's
\* contents, or a panic when the slot holds a nil pointer
ReturnsDefault ==
    IF defaultLogger = 0 THEN call.panicked ELSE ReturnsCopyOf(defaultLogger)

PlainGet == call.op = "GetLogger" /\ call.keys = <<>>

\* C1 as stated: for every context C and every logger L, GetLogger(WithLogger(C, L))
\* returns L, whatever the default logger is.
C1_RoundTripAnyLogger ==
    (PlainGet /\ call.ctx # Background /\ ctxs[call.ctx].key = loggerKey
       /\ IsLogger(ctxs[call.ctx].val))
      => ReturnsLogger(ctxs[call.ctx].val)

\* C1 amended: GetLogger(WithLogger(C, L)) returns a new Entry equal to L when L
\* is a non-nil *logrus.Entry, whatever the default logger is; for any other L
\* it works on the default logger instead.
C1_RoundTripEntry ==
    (PlainGet /\ call.ctx # Background /\ ctxs[call.ctx].key = loggerKey)
      => IF IsEntry(ctxs[call.ctx].val) THEN ReturnsLogger(ctxs[call.ctx].val)
         ELSE ReturnsDefault

C1_Witness ==
    /\ PlainGet /\ call.ctx # Background
    /\ ctxs[call.ctx].key = loggerKey /\ ctxs[call.ctx].val = EntryPtr(AppAddr)
    /\ defaultLogger = AuxAddr
    /\ ReturnsCopyOf(AppAddr) /\ heap[call.ret] = AppEntry

\* C2 as stated: once SetDefaultLogger(L2) has returned, every GetLogger(C) on a
\* context with no bound logger returns L2 until the next SetDefaultLogger call.
C2_LastWriteWinsAnyLogger ==
    (PlainGet /\ LoggerNodes(ctxs, call.ctx) = {} /\ IsLogger(lastSet.arg))
      => ReturnsLogger(lastSet.arg)

\* C2 amended: the slot holds the most recent *logrus.Entry passed to
\* SetDefaultLogger (the initial default before any), so after SetDefaultLogger(L2)
\* with L2 a *logrus.Entry every GetLogger(C) on a context with no bound logger
\* returns a copy of L2 (and panics when L2 is a nil pointer), and after a call
\* with a Logger of another type it still returns the earlier default.
C2_LastEntryWins ==
    /\ defaultLogger = lastSet.entry
    /\ lastSet.arg.t = "entry" => defaultLogger = lastSet.arg.n
    /\ (PlainGet /\ LoggerNodes(ctxs, call.ctx) = {})
         => IF lastSet.entry = 0 THEN call.panicked ELSE ReturnsCopyOf(lastSet.entry)

C2_Witness ==
    /\ PlainGet /\ LoggerNodes(ctxs, call.ctx) = {} /\ call.ctx # Background
    /\ lastSet.arg = EntryPtr(AuxAddr)
    /\ ReturnsCopyOf(AuxAddr) /\ heap[call.ret] = AuxEntry

\* the values the slot can hold in full
CompleteSlots == {0, StdAddr, AppAddr, AuxAddr}

\* C3: no reader is inside its read of the default slot while a writer is inside
\* its write (readers may overlap), and a GetLogger racing SetDefaultLogger gets
\* the slot's complete contents of before or of after a write, never another value.
C3_ReadersExcludeWriter ==
    /\ ~\E r, w \in Goroutines : pc[r] \in RLockHeld /\ pc[w] \in LockHeld
    /\ \A w1, w2 \in Goroutines : (pc[w1] \in LockHeld /\ pc[w2] \in LockHeld) => w1 = w2
    /\ mu.readers = Cardinality({r \in Goroutines : pc[r] \in RLockHeld})
    /\ \A r \in Goroutines :
         pc[r] \in {"r_unlock", "r_ret"}
           => (reg[r].logger # Torn /\ reg[r].logger \in reg[r].seen
                 /\ reg[r].seen \subseteq CompleteSlots)

C3_Witness ==
    \E r1, r2, w \in Goroutines :
        /\ r1 # r2
        /\ pc[r1] = "r_unlock" /\ reg[r1].logger = AppAddr /\ reg[r1].seen = {StdAddr, AppAddr}
        /\ pc[r2] \in RLockHeld
        /\ pc[w] = "w_wait"

\* C4: the default slot always holds a valid, non-nil logger, and GetLogger
\* never fails.
C4_SlotNeverEmpty ==
    /\ defaultLogger \in Addrs
    /\ heap[defaultLogger] # Free
    /\ ~call.panicked

\* C5: SetDefaultLogger with a value that is not a *logrus.Entry is a silent
\* no-op: the slot and the Entry objects are as before, the goroutine has
\* returned without a panic, and the lock is as it was (not taken, not held).
C5_WrongTypeIsNoOp ==
    [][\A g \in Goroutines, logger \in GoLoggerArgs :
         (logger.t # "entry" /\ GoSetDefaultLogger(g, logger))
           => /\ defaultLogger' = defaultLogger
              /\ heap' = heap
              /\ mu' = mu
              /\ pc'[g] = "idle"]_vars

C5_Witness ==
    \E g \in Goroutines :
        /\ pc[g] = "idle" /\ reg[g].arg = OtherLogger
        /\ defaultLogger = AppAddr
        /\ mu = [readers |-> 0, writer |-> "free"]

\* the *logrus.Entry getLogrusLogger starts from on context c, 0 when it is nil
ExpectedBase(c) ==
    IF IsEntry(MostRecentBinding(ctxs, c)) THEN MostRecentBinding(ctxs, c).n
    ELSE defaultLogger

\* the field names the keys ... argument yields: those of the keys with a value
\* in the context
KeyNames == {Sprint(call.keys[i]) : i \in {j \in DOMAIN call.keys :
                                             Value(ctxs, call.ctx, call.keys[j]) # NilIface}}
\* the field names the explicit fields yield
FieldNames == {Sprint(k) : k \in DOMAIN call.fields}

\* the values the keys ... argument finds in the context for field name n
KeyValues(n) ==
    {Value(ctxs, call.ctx, call.keys[i]) :
        i \in {j \in DOMAIN call.keys : Sprint(call.keys[j]) = n
                                         /\ Value(ctxs, call.ctx, call.keys[j]) # NilIface}}
\* the value the last such key finds
LastKeyValue(n) ==
    LET I == {j \in DOMAIN call.keys : Sprint(call.keys[j]) = n
                                        /\ Value(ctxs, call.ctx, call.keys[j]) # NilIface}
    IN  Value(ctxs, call.ctx, call.keys[Newest(I)])
\* the explicit values given for field name n
FieldValues(n) == {call.fields[k] : k \in {k2 \in DOMAIN call.fields : Sprint(k2) = n}}

\* no two keys of F have the same text, and no two keys of K
DistinctTexts ==
    /\ \A k1, k2 \in DOMAIN call.fields : Sprint(k1) = Sprint(k2) => k1 = k2
    /\ \A i, j \in DOMAIN call.keys :
         Sprint(call.keys[i]) = Sprint(call.keys[j]) => call.keys[i] = call.keys[j]

\* C6 as stated: the returned logger's fields are the base logger's fields plus
\* one field Sprint(k) -> F[k] for every k in F plus one field
\* Sprint(k) -> C.Value(k) for exactly the k in K with a value in C (read here
\* for arguments whose keys have distinct texts within F and within K, and with
\* the new fields replacing the base logger's fields of the same name).
C6_FieldsOfEveryKey ==
    (call.op \in GetOps /\ ExpectedBase(call.ctx) # 0 /\ DistinctTexts)
      => /\ ~call.panicked
         /\ LET data == heap[call.ret].data
                base == heap[ExpectedBase(call.ctx)].data
            IN  /\ DOMAIN data = DOMAIN base \cup FieldNames \cup KeyNames
                /\ \A k \in DOMAIN call.fields : data[Sprint(k)] = call.fields[k]
                /\ \A n \in KeyNames : \A v \in KeyValues(n) : data[n] = v
                /\ \A n \in DOMAIN base \ (FieldNames \cup KeyNames) : data[n] = base[n]

\* C6 amended: the returned logger has the base logger's Logger and the fields
\* named by the base logger's fields, by Sprint(k) for every k in F and by
\* Sprint(k) for exactly the k in K with a value in C; a name of F carries the value
\* F gives it (for keys of F with the same text, the value of one of them),
\* any other name of K the value of the last key of K with that text, any other
\* name the base logger's value. A call whose base logger is nil panics.
C6_FieldsOverlay ==
    call.op \in GetOps
      => IF ExpectedBase(call.ctx) = 0 THEN call.panicked
         ELSE /\ ~call.panicked
              /\ call.ret \in Addrs
              /\ heap[call.ret].logger = heap[ExpectedBase(call.ctx)].logger
              /\ LET data == heap[call.ret].data
                     base == heap[ExpectedBase(call.ctx)].data
                 IN  /\ DOMAIN data = DOMAIN base \cup FieldNames \cup KeyNames
                     /\ \A n \in DOMAIN data :
                          IF n \in FieldNames THEN data[n] \in FieldValues(n)
                          ELSE IF n \in KeyNames THEN data[n] = LastKeyValue(n)
                          ELSE data[n] = base[n]
                     /\ (call.op = "GetLogger" => FieldNames = {})
                     /\ (call.op = "GetLoggerWithField" => Cardinality(DOMAIN call.fields) = 1)

\* F = {"a": x, "1": y}, K = (1, "a") on the context that binds 1 but not "a"
C6_Witness ==
    /\ call.op = "GetLoggerWithFields" /\ call.ctx = 1
    /\ call.fields = (StrVal("a") :> StrVal("x")) @@ (StrVal("1") :> StrVal("y"))
    /\ call.keys = <<IntVal(1), StrVal("a")>>
    /\ ~call.panicked
    /\ heap[call.ret].data = ("a" :> StrVal("x")) @@ ("1" :> StrVal("y"))

\* C7: binding a logger on a context derived from C changes nothing for C: the
\* contexts there were are as they were, and GetLogger resolves each of them to
\* the same logger as before.
C7_BindingLeavesAncestors ==
    [][(Len(ctxs') = Len(ctxs) + 1 /\ ctxs'[Len(ctxs')].key = loggerKey)
         => /\ SubSeq(ctxs', 1, Len(ctxs)) = ctxs
            /\ \A c \in Ctxs(ctxs) :
                 /\ MostRecentBinding(ctxs', c) = MostRecentBinding(ctxs, c)
                 /\ BaseLogger(ctxs', c, defaultLogger') = BaseLogger(ctxs, c, defaultLogger)
                 /\ BaseLogger(ctxs, c, defaultLogger) \in Addrs
                      => heap'[BaseLogger(ctxs', c, defaultLogger')]
                           = heap[BaseLogger(ctxs, c, defaultLogger)]]_vars

\* a logger is bound on a context, another one on a context derived from it, and
\* GetLogger on the ancestor returns the ancestor's
C7_Witness ==
    /\ PlainGet /\ call.ctx # Background
    /\ ctxs[call.ctx].key = loggerKey /\ ctxs[call.ctx].val = EntryPtr(AppAddr)
    /\ \E d \in DOMAIN ctxs :
          /\ d # call.ctx /\ call.ctx \in Chain(ctxs, d)
          /\ ctxs[d].key = loggerKey /\ ctxs[d].val = EntryPtr(AuxAddr)
    /\ ReturnsCopyOf(AppAddr)

\* C8: a Get* call leaves the default slot, the contexts and every Entry there
\* was unchanged and returns a new Entry, so GetLogger resolves every context to
\* a logger with the same fields after the call as before it.
C8_GetIsPure ==
    [][(call'.op \in GetOps /\ call.op \notin GetOps)
         => /\ defaultLogger' = defaultLogger
            /\ ctxs' = ctxs
            /\ \A a \in Roots(ctxs, defaultLogger) : heap'[a] = heap[a]
            /\ ~call'.panicked => call'.ret \notin Roots(ctxs, defaultLogger)
            /\ \A c \in Ctxs(ctxs) :
                 /\ BaseLogger(ctxs', c, defaultLogger') = BaseLogger(ctxs, c, defaultLogger)
                 /\ BaseLogger(ctxs, c, defaultLogger) \in Addrs
                      => heap'[BaseLogger(ctxs, c, defaultLogger)].data
                           = heap[BaseLogger(ctxs, c, defaultLogger)].data]_vars

\* GetLoggerWithField on the context whose logger has fields of its own gave a
\* logger with another field set
C8_Witness ==
    /\ call.op = "GetLoggerWithField" /\ ~call.panicked
    /\ call.base = AppAddr /\ heap[AppAddr] = AppEntry
    /\ heap[call.ret].data # AppEntry.data
    /\ call.ret # AppAddr

\* C9 as stated: GetLogger resolves to the most recently bound logger on the
\* chain, whatever Logger values were bound.
C9_MostRecentAnyLogger ==
    (PlainGet /\ IsLogger(MostRecentBinding(ctxs, call.ctx)))
      => ReturnsLogger(MostRecentBinding(ctxs, call.ctx))

\* C9 amended: GetLogger resolves to the most recently bound logger on the chain
\* when that is a non-nil *logrus.Entry; when the most recent binding is of
\* another type or nil it resolves to the default logger, not to an earlier
\* binding, as it does when nothing is bound.
C9_MostRecentEntry ==
    PlainGet
      => IF IsEntry(MostRecentBinding(ctxs, call.ctx))
         THEN ReturnsLogger(MostRecentBinding(ctxs, call.ctx))
         ELSE ReturnsDefault

\* two loggers bound one above the other: the later wins
C9_Witness ==
    /\ PlainGet
    /\ Cardinality(LoggerNodes(ctxs, call.ctx)) = 2
    /\ \E a, b \in LoggerNodes(ctxs, call.ctx) :
          a < b /\ ctxs[a].val = EntryPtr(AppAddr) /\ ctxs[b].val = EntryPtr(AuxAddr)
    /\ ReturnsCopyOf(AuxAddr)

\* C10: when an explicit field's name is also the text of a key of keys ... that
\* has a value in the context, the returned logger carries the explicit value
\* under that name, not the context's.
C10_ExplicitOverridesContext ==
    (call.op \in {"GetLoggerWithField", "GetLoggerWithFields"} /\ ~call.panicked)
      => \A n \in FieldNames \cap KeyNames :
           /\ heap[call.ret].data[n] \in FieldValues(n)
           /\ (FieldValues(n) \cap KeyValues(n) = {}
                 => heap[call.ret].data[n] \notin KeyValues(n))

C10_Witness ==
    /\ call.op = "GetLoggerWithField" /\ ~call.panicked
    /\ call.ctx = 2
    /\ call.fields = (StrVal("1") :> StrVal("x"))
    /\ call.keys = <<StrVal("1")>>
    /\ Value(ctxs, call.ctx, StrVal("1")) = StrVal("y")
    /\ heap[call.ret].data["1"] = StrVal("x")

====
